---- MODULE Spec2Model ----
(***************************************************************************)
(* Bug tracker API server: the bug lifecycle and authorization rules of    *)
(* server/src (routes/bugRoutes.js, middleware/auth.js,                    *)
(* controllers/bugController.js, utils/validation.js, models/Bug.js) and   *)
(* the admin role update of the authentication controller, with the        *)
(* sanitizeInput middleware of the application and canAccessResource of    *)
(* utils/auth.js.                                                          *)
(*                                                                         *)
(* One action models one HTTP request handled to completion: the route's   *)
(* middleware chain followed by the controller.  Requests are the ones     *)
(* that pass the express-validator chains of the routes (well-formed ids,  *)
(* enum values inside their enums) and carry the token of an existing,     *)
(* active user.                                                            *)
(***************************************************************************)
EXTENDS Integers, Sequences, FiniteSets, TLC

\* ------------------------------------------------------------------ bounds

\* Date values the clock can supply (createdAt).
MaxTime == 1
\* Longest comment list a bug grows to.
MaxComments == 1
\* Largest number of keys in one update payload.
MaxPatchKeys == 2
\* Longest watcher list a bug grows to.
MaxWatchers == 1
\* Most requests that have read a bug and not yet saved it.
MaxInflight == 2
MaxRequests == 3

\* ------------------------------------------------------------- value sets

\* The registered users, and a well-formed id that belongs to no user.
Users == {"u1", "u2", "u3"}
GhostUser == "u0"
UserIds == Users \cup {GhostUser}

Roles == {"reporter", "developer", "admin"}

\* The ids a request can name; a bug is stored under an id or not.
BugIds == {"b1"}

Statuses == {"open", "in-progress", "testing", "resolved", "closed"}
Priorities == {"medium", "high"}
Times == 1..MaxTime

\* assignee default of the schema, and the absent document.
Null == "null"
NoBug == [absent |-> TRUE]

\* A request body field that was not sent.
Absent == "absent"

\* resolvedAt and closedAt of a bug that has none (the paths have no default).
NoDate == 0

\* ------------------------------------------------------------------ state

VARIABLES
    users,        \* user id -> role (the User collection)
    bugs,         \* bug id -> stored document, or NoBug (the Bug collection)
    res,          \* the response to the last request, with the request's outline
    inflight,     \* slot -> a request between its findById and its save, or Idle
    toggledOn,    \* bug id -> the users whose toggleWatcher added them as watcher
    inactive,     \* the users whose isActive is false
    metrics,      \* PerformanceMonitor: this.metrics.requests
    responses     \* PerformanceMonitor: request -> the events its response emitted

vars == <<users, bugs, res, inflight, toggledOn, inactive, metrics, responses>>

\* ------------------------------------------------------ pure helper code

\* String.prototype.includes on strings spelled as sequences of characters.
Includes(str, needle) ==
    \E i \in 0..(Len(str) - Len(needle)) :
        \A j \in 1..Len(needle) : str[i + j] = needle[j]

\* req.route.path of the update and delete routes: the path the route was
\* declared with inside the router, router.put('/:id') and router.delete('/:id').
RoutePathId == <<"/", ":", "i", "d">>
\* The literal canModifyResource looks for in req.route.path.
BugsNeedle == <<"/", "b", "u", "g", "s">>

\* String.prototype.trim: strip the blanks at both ends.
RECURSIVE TrimLeft(_)
TrimLeft(s) == IF s /= <<>> /\ Head(s) = " " THEN TrimLeft(Tail(s)) ELSE s
RECURSIVE TrimRight(_)
TrimRight(s) ==
    IF s /= <<>> /\ s[Len(s)] = " " THEN TrimRight(SubSeq(s, 1, Len(s) - 1)) ELSE s
Trim(s) == TrimRight(TrimLeft(s))

\* The replacements of sanitizeInput, one character at a time: & is replaced
\* first, so the & of an entity is not replaced again.
EscapeChar(c) ==
    CASE c = "&" -> <<"&", "a", "m", "p", ";">>
      [] c = "<" -> <<"&", "l", "t", ";">>
      [] c = ">" -> <<"&", "g", "t", ";">>
      [] c = "\"" -> <<"&", "q", "u", "o", "t", ";">>
      [] c = "'" -> <<"&", "#", "x", "2", "7", ";">>
      [] c = "/" -> <<"&", "#", "x", "2", "F", ";">>
      [] OTHER   -> <<c>>

\* sanitizeInput on one string of req.body (app.use(sanitizeInput) runs
\* before every route).
RECURSIVE sanitize(_)
sanitize(str) ==
    IF str = <<>> THEN <<>> ELSE EscapeChar(Head(str)) \o sanitize(Tail(str))

\* The comment bodies a request sends (content of POST /:id/comments).
Contents == { <<>>, <<" ">>, <<"a">>, <<" ", "a", " ">>, <<"<">> }

\* allowedTransitions of validateStatusTransition.
allowedTransitions ==
    [s \in Statuses |->
        CASE s = "open"        -> {"in-progress", "closed"}
          [] s = "in-progress" -> {"testing", "open", "closed"}
          [] s = "testing"     -> {"resolved", "in-progress", "open"}
          [] s = "resolved"    -> {"closed", "open"}
          [] s = "closed"      -> {"open"}]

\* A transition check that also lets a status stay as it is.
validateStatusTransitionOrSame(currentStatus, newStatus) ==
    newStatus = currentStatus \/
    (currentStatus \in DOMAIN allowedTransitions
        /\ newStatus \in allowedTransitions[currentStatus])

\* A transition check that lets a status move to every later status of the
\* workflow and back to open.
validateStatusTransitionForward(currentStatus, newStatus) ==
    LET rank == [s \in Statuses |->
                    CASE s = "open" -> 1 [] s = "in-progress" -> 2
                      [] s = "testing" -> 3 [] s = "resolved" -> 4
                      [] s = "closed" -> 5]
    IN  /\ currentStatus \in Statuses /\ newStatus \in Statuses
        /\ (rank[newStatus] > rank[currentStatus] \/ newStatus = "open")
        /\ newStatus /= currentStatus

\* allowedTransitions[currentStatus]?.includes(newStatus) || false
validateStatusTransition(currentStatus, newStatus) ==
    IF currentStatus \in DOMAIN allowedTransitions
    THEN newStatus \in allowedTransitions[currentStatus]
    ELSE FALSE

\* ------------------------------------------------------------- responses

\* HTTP status codes of the responses.
Ok == 200
Created == 201
BadRequest == 400
Unauthorized == 401
Forbidden == 403
NotFound == 404
\* The answer of globalErrorHandler to an error that is no AppError.
ServerError == 500
\* A middleware that sends no response and calls next().
CallNext == 0

None == "none"

\* The response to a request, with the request's outline: the operation, the
\* acting user (req.user), req.params.id, the status code sent, the request's
\* main argument (the reporter a create body names, the status an update
\* payload names, assigneeId, the role), the status a create body names or
\* the status updateBug read, and the answer of validateStatusTransition.
Response(op, actor, id, code, arg, from, legal) ==
    [op |-> op, actor |-> actor, id |-> id, code |-> code, arg |-> arg,
     from |-> from, legal |-> legal, data |-> None]

\* ------------------------------------------------------- request bodies

\* The keys of an update payload (req.body of PUT /:id).  "$set.status" and
\* "$set.reporter" stand for the nested document {"$set": {...}}: a key that
\* starts with $ is an update operator to findByIdAndUpdate.
PatchKeys ==
    {"status", "priority", "assignee", "reporter", "createdAt", "comments",
     "$set.status", "$set.reporter"}

\* The values a payload carries under a key.
PatchValues(k) ==
    CASE k = "status"        -> Statuses
      [] k = "priority"      -> {"high"}
      [] k = "assignee"      -> UserIds
      [] k = "reporter"      -> {"u2"}
      [] k = "createdAt"     -> {MaxTime + 1}
      [] k = "comments"      -> {<<>>}
      [] k = "$set.status"   -> {"open", "resolved"}
      [] k = "$set.reporter" -> {"u2"}

\* The value read from a key that was not sent.
PatchDefault(k) ==
    CASE k = "createdAt" -> 0
      [] k = "comments"  -> <<>>
      [] OTHER           -> Absent

Val(k, K) == IF k \in K THEN PatchValues(k) ELSE {PatchDefault(k)}

\* A payload names a field once: at the top level or under $set.
PatchKeySets ==
    {K \in SUBSET PatchKeys :
        /\ Cardinality(K) <= MaxPatchKeys
        /\ ~({"status", "$set.status"} \subseteq K)
        /\ ~({"reporter", "$set.reporter"} \subseteq K)}

PatchesWithKeys(K) ==
    { [keys |-> K, status |-> st, priority |-> pr, assignee |-> asg,
       reporter |-> rp, createdAt |-> ca, comments |-> cm,
       setStatus |-> sst, setReporter |-> srp] :
        st \in Val("status", K), pr \in Val("priority", K),
        asg \in Val("assignee", K), rp \in Val("reporter", K),
        ca \in Val("createdAt", K), cm \in Val("comments", K),
        sst \in Val("$set.status", K), srp \in Val("$set.reporter", K) }

Patches == UNION { PatchesWithKeys(K) : K \in PatchKeySets }

\* The body of POST /: the fields createBug reads and two it does not.
CreateBodies ==
    [priority : Priorities \cup {Absent},
     reporter : Users \cup {Absent},
     status   : Statuses \cup {Absent}]

\* ------------------------------------------------------------ middleware

\* A role check that lets every authenticated user through.
authorizeAnyRole(roles, actor) == CallNext

\* authorize(...roles): 403 unless the acting user's role is listed.
authorize(roles, actor) ==
    IF users[actor] \notin roles THEN Forbidden ELSE CallNext

\* bug.reporter.equals(req.user._id) ||
\* (bug.assignee && bug.assignee.equals(req.user._id))
canModify(doc, actor) ==
    doc.reporter = actor \/ (doc.assignee /= Null /\ doc.assignee = actor)

\* canModifyResource('id'): an admin passes; the reporter/assignee check runs
\* only when req.route.path includes '/bugs'; every other request passes.
canModifyResource(actor, id, routePath) ==
    IF users[actor] = "admin" THEN CallNext
    ELSE IF Includes(routePath, BugsNeedle)
         THEN IF bugs[id] = NoBug THEN NotFound
              ELSE IF ~canModify(bugs[id], actor) THEN Forbidden
              ELSE CallNext
         ELSE CallNext

\* ------------------------------------------------------- access control

\* The resources canAccessResource is asked about: resource.constructor.modelName
\* with the fields the function reads.
BugResource(doc) ==
    [modelName |-> "Bug", reporter |-> doc.reporter, assignee |-> doc.assignee]
UserResource(id) == [modelName |-> "User", id |-> id]
UnknownResource == [modelName |-> "Unknown"]

\* The actions canAccessResource is asked about; it names the first four.
AccessActions == {"read", "create", "update", "delete", "archive"}

\* A JavaScript value as the answer of canAccessResource.
Bool(b) == IF b THEN "true" ELSE "false"

\* canAccessResource below the admin check: the switch of the Bug branch, the
\* switch of the User branch, and the final return false.  An update of a
\* bug without assignee by a stranger evaluates resource.assignee?.equals(...)
\* to undefined.
resourceRule(user, resource, action) ==
    IF resource.modelName = "Bug"
    THEN CASE action = "read"   -> "true"
           [] action = "create" -> Bool(user.role \in {"reporter", "developer", "admin"})
           [] action = "update" ->
                IF user.role = "admin" \/ resource.reporter = user.id THEN "true"
                ELSE IF resource.assignee = Null THEN "undefined"
                ELSE Bool(resource.assignee = user.id)
           [] action = "delete" -> Bool(user.role = "admin" \/ resource.reporter = user.id)
           [] OTHER             -> "false"
    ELSE IF resource.modelName = "User"
    THEN CASE action = "read"   -> "true"
           [] action = "update" -> Bool(user.role = "admin" \/ resource.id = user.id)
           [] action = "delete" -> Bool(user.role = "admin")
           [] OTHER             -> "false"
    ELSE "false"

\* An access check that looks at the kind of the resource before the role.
canAccessResourceKindFirst(user, resource, action) ==
    IF resource.modelName \notin {"Bug", "User"} THEN "false"
    ELSE IF user.role = "admin" THEN "true"
    ELSE resourceRule(user, resource, action)

\* canAccessResource(user, resource, action): an admin is answered true
\* before the resource is looked at.
canAccessResource(user, resource, action) ==
    IF user.role = "admin" THEN "true"
    ELSE resourceRule(user, resource, action)

\* ----------------------------------------------------------- controllers

\* The position of the first step of the smallest order.
FirstLeast(steps) ==
    CHOOSE i \in 1..Len(steps) :
        /\ \A j \in 1..Len(steps) : steps[i].order <= steps[j].order
        /\ \A j \in 1..(i - 1) : steps[j].order > steps[i].order

\* this.stepsToReproduce.sort((a, b) => a.order - b.order): ascending by
\* order, steps of equal order keeping their places.
RECURSIVE SortByOrder(_)
SortByOrder(steps) ==
    IF steps = <<>> THEN <<>>
    ELSE LET i == FirstLeast(steps)
         IN  <<steps[i]>> \o SortByOrder(SubSeq(steps, 1, i - 1) \o
                                         SubSeq(steps, i + 1, Len(steps)))

\* The hook's second condition: the array is sorted, and the sort marks it
\* modified, whenever it holds a step.
sortsSteps(doc) == Len(doc.stepsToReproduce) > 0

\* bugSchema.pre('save'): a save that modified the status dates resolvedAt
\* (closedAt) when the status is resolved (closed) and the date is not set;
\* every save sorts the steps to reproduce by order.
\* modified is the set of paths the document changed since it was loaded.
preSave(doc, modified, now) ==
    LET dated == IF "status" \in modified
                 THEN [doc EXCEPT
                         !.resolvedAt = IF doc.status = "resolved" /\ @ = NoDate
                                        THEN now ELSE @,
                         !.closedAt   = IF doc.status = "closed" /\ @ = NoDate
                                        THEN now ELSE @]
                 ELSE doc
    IN  IF sortsSteps(dated)
        THEN [dated EXCEPT !.stepsToReproduce = SortByOrder(@)]
        ELSE dated

\* const { ..., stepsToReproduce, ..., dueDate } = req.body: a field the
\* body does not carry is undefined and takes the schema's default.
Field(body, key, default) == IF key \in DOMAIN body THEN body[key] ELSE default

\* A create that spreads the request body over the new document.
createBugDocFromBody(actor, body, now) ==
    [status    |-> IF body.status = Absent THEN "open" ELSE body.status,
     priority  |-> IF body.priority = Absent THEN "medium" ELSE body.priority,
     reporter  |-> IF body.reporter = Absent THEN actor ELSE body.reporter,
     assignee  |-> Null,
     comments  |-> <<>>,
     watchers  |-> <<>>,
     stepsToReproduce |-> Field(body, "stepsToReproduce", <<>>),
     dueDate   |-> Field(body, "dueDate", NoDate),
     createdAt |-> now,
     resolvedAt |-> NoDate,
     closedAt  |-> NoDate]

\* Bug.create({..., reporter: req.user._id}) with the schema defaults: status
\* and assignee are not read from the body.
createBugDoc(actor, body, now) ==
    preSave([status    |-> "open",
             priority  |-> IF body.priority = Absent THEN "medium" ELSE body.priority,
             reporter  |-> actor,
             assignee  |-> Null,
             comments  |-> <<>>,
             watchers  |-> <<>>,
             stepsToReproduce |-> Field(body, "stepsToReproduce", <<>>),
             dueDate   |-> Field(body, "dueDate", NoDate),
             createdAt |-> now,
             resolvedAt |-> NoDate,
             closedAt  |-> NoDate],
            {"status", "priority", "reporter"}, now)

\* delete updates.reporter; delete updates.createdAt; delete updates.comments
StripReadOnly(updates) ==
    [updates EXCEPT !.keys = @ \ {"reporter", "createdAt", "comments"}]

\* Bug.findByIdAndUpdate(id, updates): the top-level keys are set as sent,
\* the keys under $set are set as sent and a key under $unset is removed (the
\* schema does not require a status); createdAt is immutable to updates
\* under the schema's timestamps option.  No pre('save') hook runs.
findByIdAndUpdate(doc, updates) ==
    [doc EXCEPT
        !.status   = IF "status" \in updates.keys THEN updates.status
                     ELSE IF "$set.status" \in updates.keys THEN updates.setStatus
                     ELSE IF "$unset.status" \in updates.keys THEN Absent
                     ELSE @,
        !.priority = IF "priority" \in updates.keys THEN updates.priority ELSE @,
        !.assignee = IF "assignee" \in updates.keys THEN updates.assignee ELSE @,
        !.reporter = IF "reporter" \in updates.keys THEN updates.reporter
                     ELSE IF "$set.reporter" \in updates.keys THEN updates.setReporter
                     ELSE @,
        !.comments = IF "comments" \in updates.keys THEN updates.comments
                     ELSE IF "$set.comments" \in updates.keys THEN updates.setComments
                     ELSE @,
        !.watchers = IF "watchers" \in updates.keys THEN updates.watchers ELSE @,
        !.stepsToReproduce = IF "stepsToReproduce" \in updates.keys
                             THEN updates.stepsToReproduce ELSE @,
        !.dueDate  = IF "dueDate" \in updates.keys THEN updates.dueDate ELSE @,
        !.resolvedAt = IF "resolvedAt" \in updates.keys THEN updates.resolvedAt ELSE @,
        !.closedAt = IF "closedAt" \in updates.keys THEN updates.closedAt ELSE @]

\* An update that writes the other fields before it checks the transition.
updateBugWriteFirst(id, body) ==
    LET updates == StripReadOnly(body)
        asked   == "status" \in updates.keys
        doc     == bugs[id]
        legal   == validateStatusTransition(doc.status, updates.status)
        others  == [updates EXCEPT !.keys = @ \ {"status"}]
    IN  IF doc = NoBug
        THEN [code |-> NotFound, doc |-> doc, from |-> None, legal |-> FALSE]
        ELSE IF asked /\ ~legal
        THEN [code |-> BadRequest, doc |-> findByIdAndUpdate(doc, others),
              from |-> doc.status, legal |-> FALSE]
        ELSE [code |-> Ok, doc |-> findByIdAndUpdate(doc, updates),
              from |-> IF asked THEN doc.status ELSE None, legal |-> asked]

\* updateBug: the answer and the stored document after it.
updateBug(id, body) ==
    LET updates == StripReadOnly(body)
        asked   == "status" \in updates.keys
        doc     == bugs[id]
        legal   == validateStatusTransition(doc.status, updates.status)
    IN  IF asked /\ doc = NoBug
        THEN [code |-> NotFound, doc |-> doc, from |-> None, legal |-> FALSE]
        ELSE IF asked /\ ~legal
        THEN [code |-> BadRequest, doc |-> doc, from |-> doc.status, legal |-> FALSE]
        ELSE IF doc = NoBug
        THEN [code |-> NotFound, doc |-> doc, from |-> None, legal |-> FALSE]
        ELSE [code |-> Ok, doc |-> findByIdAndUpdate(doc, updates),
              from |-> IF asked THEN doc.status ELSE None, legal |-> asked]

\* A delete check that treats the assignee like the reporter.
deleteDeniedUnlessInvolved(doc, actor) ==
    ~canModify(doc, actor) /\ users[actor] /= "admin"

\* bug.reporter.toString() !== req.user._id.toString() && req.user.role !== 'admin'
deleteDenied(doc, actor) ==
    doc.reporter /= actor /\ users[actor] /= "admin"

\* An assignee check that accepts every role.
assignableRoleAny(role) == role \in Roles

\* ['developer', 'admin'].includes(assignee.role)
assignableRole(role) == role \in {"developer", "admin"}

\* assignBug: the answer to {assigneeId} for the bug stored under id.
assignBug(id, assigneeId) ==
    IF assigneeId \notin DOMAIN users THEN NotFound
    ELSE IF ~assignableRole(users[assigneeId]) THEN BadRequest
    ELSE IF bugs[id] = NoBug THEN NotFound
    ELSE Ok

\* An addComment that takes every content.
contentMissingNever(content) == FALSE

\* !content || content.trim().length === 0
contentMissing(content) == content = <<>> \/ Len(Trim(content)) = 0

\* req.body.content as addComment reads it: after sanitizeInput and after the
\* trim() of addCommentValidation.
sentContent(content) == Trim(sanitize(content))

\* addComment: the answer to content for the document findById returned.
addComment(doc, content) ==
    IF contentMissing(content) THEN BadRequest
    ELSE IF doc = NoBug THEN NotFound
    ELSE Created

\* { author: req.user._id, content: content.trim() }
newComment(actor, content) == [author |-> actor, content |-> Trim(content)]

\* The part of bug.save() the hook's sort adds, for the document as stored and
\* as the request read it: the steps the request read, sorted and marked
\* modified, are sent as $set under the version the request read, and the
\* save fails when the stored version has moved since.
saveSteps(stored, seen, moved) ==
    IF ~sortsSteps(seen)
    THEN [ok |-> TRUE, doc |-> stored]
    ELSE IF moved
    THEN [ok |-> FALSE, doc |-> stored]
    ELSE [ok |-> TRUE,
          doc |-> [stored EXCEPT !.stepsToReproduce = SortByOrder(seen.stepsToReproduce)]]

\* A save that writes the comments the request read, with the new one added.
pushCommentOverRead(stored, seen, comment) ==
    [stored EXCEPT !.comments = Append(seen.comments, comment)]

\* bug.comments.push(...); bug.save(): the save sends the pushed comment as
\* $push, which appends to the array as it is stored, whatever the request read.
pushComment(stored, seen, comment) ==
    [stored EXCEPT !.comments = Append(@, comment)]

\* bug.watchers.includes(userId)
watching(doc, userId) == \E i \in 1..Len(doc.watchers) : doc.watchers[i] = userId

\* bug.watchers.filter(watcher => !watcher.equals(userId))
withoutWatcher(doc, userId) == SelectSeq(doc.watchers, LAMBDA w : w /= userId)

\* A toggle that adds the user whether or not the user is watching.
toggleWatcherAddOnly(doc, userId) ==
    [watchers      |-> Append(doc.watchers, userId),
     isWatching    |-> ~watching(doc, userId),
     watchersCount |-> Len(doc.watchers) + 1]

\* toggleWatcher on the document findById returned: the watchers of the
\* document after the filter or the push, and the data of the response.
toggleWatcher(doc, userId) ==
    LET isWatching == watching(doc, userId)
        watchers   == IF isWatching THEN withoutWatcher(doc, userId)
                      ELSE Append(doc.watchers, userId)
    IN  [watchers      |-> watchers,
         isWatching    |-> ~isWatching,
         watchersCount |-> Len(watchers)]

\* bug.save() of toggleWatcher, for the document as stored and as the request
\* read it.  A pushed watcher is sent as $push and appended to the stored
\* array; a replaced array is sent as $set under the version the request
\* read, and the save fails when the stored version has moved since.
saveWatchers(stored, seen, userId, moved) ==
    IF ~watching(seen, userId)
    THEN [ok |-> TRUE, doc |-> [stored EXCEPT !.watchers = Append(@, userId)]]
    ELSE IF moved
    THEN [ok |-> FALSE, doc |-> stored]
    ELSE [ok |-> TRUE, doc |-> [stored EXCEPT !.watchers = withoutWatcher(seen, userId)]]

\* ------------------------------------------------------ requests in flight

Slots == 1..MaxInflight
Idle == [op |-> None]

\* A request that has read its bug: the document findById returned, the
\* content sent, and whether a save has moved the stored version since.
Request(op, actor, id, doc, content) ==
    [op |-> op, actor |-> actor, id |-> id, doc |-> doc, content |-> content,
     moved |-> FALSE]

\* The requests in flight on a bug.
pending(id) ==
    Cardinality({s \in Slots : inflight[s] /= Idle /\ inflight[s].id = id})

\* The lowest free slot takes the next request.
FreeSlot(s) ==
    inflight[s] = Idle /\ \A t \in Slots : t < s => inflight[t] /= Idle

\* A save of a pushed or replaced array increments the stored version (__v):
\* the requests that read the bug earlier hold an older one.  done is the
\* slot of the request that saved, which leaves its slot.
versionMoved(id, done) ==
    [s \in Slots |->
        IF s = done THEN Idle
        ELSE IF inflight[s] /= Idle /\ inflight[s].id = id
        THEN [inflight[s] EXCEPT !.moved = TRUE]
        ELSE inflight[s]]

\* ----------------------------------------------------------- monitor

\* The requests the PerformanceMonitor's middleware sees.
RequestIds == 1..MaxRequests

\* this.metrics.requests as the constructor sets it.
NoRequests == [total |-> 0, active |-> 0, completed |-> 0, failed |-> 0]

\* A response before its request reached the middleware: no event emitted,
\* res.statusCode at its default.
NotStarted == [started |-> FALSE, events |-> <<>>, statusCode |-> Ok]

\* The status codes a handler sends.
StatusCodes == {Ok, NotFound, ServerError}

\* recordRequestCompletion: active--, completed++, and failed++ when
\* res.statusCode >= 400.
recordRequestCompletion(m, statusCode) ==
    [m EXCEPT !.active = @ - 1,
              !.completed = @ + 1,
              !.failed = IF statusCode >= BadRequest THEN @ + 1 ELSE @]

\* ------------------------------------------------------------------ init

\* An empty bug collection and three registered users, one of each role.
Init ==
    /\ users = [u \in Users |->
                   CASE u = "u1" -> "reporter"
                     [] u = "u2" -> "developer"
                     [] u = "u3" -> "admin"]
    /\ bugs = [b \in BugIds |-> NoBug]
    /\ res = Response(None, None, None, 0, None, None, FALSE)
    /\ inflight = [s \in Slots |-> Idle]
    /\ toggledOn = [b \in BugIds |-> {}]
    /\ inactive = {}
    /\ metrics = NoRequests
    /\ responses = [r \in RequestIds |-> NotStarted]

\* --------------------------------------------------------------- actions

\* POST /  : authorize('reporter', 'developer', 'admin'), createBug.
\* The new document gets an id no stored bug has.
CreateBug(actor, id, body, now) ==
    /\ bugs[id] = NoBug
    /\ LET mw == authorize({"reporter", "developer", "admin"}, actor)
       IN  IF mw /= CallNext
           THEN /\ res' = Response("createBug", actor, id, mw, body.reporter, body.status, FALSE)
                /\ UNCHANGED bugs
           ELSE /\ bugs' = [bugs EXCEPT ![id] = createBugDoc(actor, body, now)]
                /\ res' = Response("createBug", actor, id, Created, body.reporter, body.status, FALSE)
    /\ UNCHANGED <<users, inflight, toggledOn>>
    /\ UNCHANGED <<inactive, metrics, responses>>

\* PUT /:id  : canModifyResource('id'), updateBug.
UpdateBug(actor, id, body) ==
    /\ LET mw == canModifyResource(actor, id, RoutePathId)
           r  == updateBug(id, body)
           asked == IF "status" \in body.keys THEN body.status ELSE Absent
       IN  IF mw /= CallNext
           THEN /\ res' = Response("updateBug", actor, id, mw, asked, None, FALSE)
                /\ UNCHANGED bugs
           ELSE /\ res' = Response("updateBug", actor, id, r.code, asked, r.from, r.legal)
                /\ bugs' = [bugs EXCEPT ![id] = r.doc]
    /\ UNCHANGED <<users, inflight, toggledOn>>
    /\ UNCHANGED <<inactive, metrics, responses>>

\* DELETE /:id  : canModifyResource('id'), deleteBug.
DeleteBug(actor, id) ==
    /\ LET mw == canModifyResource(actor, id, RoutePathId)
           code == IF mw /= CallNext THEN mw
                   ELSE IF bugs[id] = NoBug THEN NotFound
                   ELSE IF deleteDenied(bugs[id], actor) THEN Forbidden
                   ELSE Ok
       IN  /\ res' = Response("deleteBug", actor, id, code, None, None, FALSE)
           /\ bugs' = IF code = Ok THEN [bugs EXCEPT ![id] = NoBug] ELSE bugs
           /\ toggledOn' = IF code = Ok THEN [toggledOn EXCEPT ![id] = {}] ELSE toggledOn
    /\ UNCHANGED <<users, inflight>>
    /\ UNCHANGED <<inactive, metrics, responses>>

\* PUT /:id/assign  : authorize('developer', 'admin'), assignBug.
AssignBug(actor, id, assigneeId) ==
    /\ LET mw == authorize({"developer", "admin"}, actor)
           code == IF mw /= CallNext THEN mw ELSE assignBug(id, assigneeId)
       IN  /\ res' = Response("assignBug", actor, id, code, assigneeId, None, FALSE)
           /\ bugs' = IF code = Ok
                      THEN [bugs EXCEPT ![id].assignee = assigneeId]
                      ELSE bugs
    /\ UNCHANGED <<users, inflight, toggledOn>>
    /\ UNCHANGED <<inactive, metrics, responses>>

\* POST /:id/comments  : addComment, from the request to the response with
\* no other request in between.
AddComment(actor, id, content, now) ==
    /\ (IF bugs[id] = NoBug THEN 0 ELSE Len(bugs[id].comments)) < MaxComments
    /\ LET body == sentContent(content)
           code == addComment(bugs[id], body)
       IN  /\ res' = [Response("addComment", actor, id, code, content, None, FALSE)
                          EXCEPT !.data = [overlapped |-> FALSE]]
           /\ bugs' = IF code = Created
                      THEN [bugs EXCEPT ![id] =
                               preSave(pushComment(@, @, newComment(actor, body)),
                                       {"comments"}, now)]
                      ELSE bugs
           /\ inflight' = IF code = Created THEN versionMoved(id, 0) ELSE inflight
    /\ UNCHANGED <<users, toggledOn>>
    /\ UNCHANGED <<inactive, metrics, responses>>

\* addComment up to the answer of Bug.findById: the checks, and the read.
BeginAddComment(actor, id, content, s) ==
    /\ FreeSlot(s)
    /\ (IF bugs[id] = NoBug THEN 0 ELSE Len(bugs[id].comments)) + pending(id)
          <= MaxComments
    /\ LET code == addComment(bugs[id], sentContent(content))
       IN  IF code /= Created
           THEN /\ res' = [Response("addComment", actor, id, code, content, None, FALSE)
                               EXCEPT !.data = [overlapped |-> FALSE]]
                /\ UNCHANGED inflight
           ELSE /\ inflight' = [inflight EXCEPT ![s] =
                                   Request("addComment", actor, id, bugs[id], content)]
                /\ UNCHANGED res
    /\ UNCHANGED <<users, bugs, toggledOn>>
    /\ UNCHANGED <<inactive, metrics, responses>>

\* addComment from bug.comments.push to the response: the save meets the
\* document as it is stored by then.
FinishAddComment(s) ==
    /\ inflight[s].op = "addComment"
    /\ LET r      == inflight[s]
           stored == bugs[r.id]
           body   == sentContent(r.content)
           st     == saveSteps(stored, r.doc, r.moved)
       IN  IF stored = NoBug \/ ~st.ok
           THEN /\ res' = Response("addComment", r.actor, r.id, ServerError,
                                   r.content, None, FALSE)
                /\ inflight' = [inflight EXCEPT ![s] = Idle]
                /\ UNCHANGED bugs
           ELSE /\ res' = [Response("addComment", r.actor, r.id, Created,
                                    r.content, None, FALSE)
                               EXCEPT !.data = [overlapped |-> r.moved]]
                /\ bugs' = [bugs EXCEPT ![r.id] =
                               pushComment(st.doc, r.doc, newComment(r.actor, body))]
                /\ inflight' = versionMoved(r.id, s)
    /\ UNCHANGED <<users, toggledOn>>
    /\ UNCHANGED <<inactive, metrics, responses>>

\* PUT /:id/watch  : toggleWatcher, from the request to the response with no
\* other request in between.
ToggleWatcher(actor, id, now) ==
    /\ IF bugs[id] = NoBug THEN TRUE
       ELSE watching(bugs[id], actor) \/ Len(bugs[id].watchers) < MaxWatchers
    /\ IF bugs[id] = NoBug
       THEN /\ res' = Response("toggleWatcher", actor, id, NotFound, None, None, FALSE)
            /\ UNCHANGED <<bugs, inflight, toggledOn>>
       ELSE LET t == toggleWatcher(bugs[id], actor)
                w == saveWatchers(bugs[id], bugs[id], actor, FALSE)
            IN  /\ res' = [Response("toggleWatcher", actor, id, Ok, None, None, FALSE)
                               EXCEPT !.data = [isWatching    |-> t.isWatching,
                                                watchersCount |-> t.watchersCount]]
                /\ bugs' = [bugs EXCEPT ![id] = preSave(w.doc, {"watchers"}, now)]
                /\ inflight' = versionMoved(id, 0)
                /\ toggledOn' = IF t.isWatching
                                THEN [toggledOn EXCEPT ![id] = @ \cup {actor}]
                                ELSE toggledOn
    /\ UNCHANGED users
    /\ UNCHANGED <<inactive, metrics, responses>>

\* toggleWatcher up to the answer of Bug.findById.
BeginToggleWatcher(actor, id, s) ==
    /\ FreeSlot(s)
    /\ (IF bugs[id] = NoBug THEN 0 ELSE Len(bugs[id].watchers)) + pending(id)
          <= MaxWatchers
    /\ IF bugs[id] = NoBug
       THEN /\ res' = Response("toggleWatcher", actor, id, NotFound, None, None, FALSE)
            /\ UNCHANGED inflight
       ELSE /\ inflight' = [inflight EXCEPT ![s] =
                               Request("toggleWatcher", actor, id, bugs[id], None)]
            /\ UNCHANGED res
    /\ UNCHANGED <<users, bugs, toggledOn>>
    /\ UNCHANGED <<inactive, metrics, responses>>

\* toggleWatcher from bug.watchers.includes to the response: the filter or
\* the push works on the document the request read, the save meets the
\* document as it is stored by then, and the response reports the request's
\* own copy.
FinishToggleWatcher(s) ==
    /\ inflight[s].op = "toggleWatcher"
    /\ LET r      == inflight[s]
           stored == bugs[r.id]
           t      == toggleWatcher(r.doc, r.actor)
           st     == saveSteps(stored, r.doc, r.moved)
           w      == saveWatchers(st.doc, r.doc, r.actor, r.moved)
       IN  IF stored = NoBug \/ ~st.ok \/ ~w.ok
           THEN /\ res' = Response("toggleWatcher", r.actor, r.id, ServerError,
                                   None, None, FALSE)
                /\ inflight' = [inflight EXCEPT ![s] = Idle]
                /\ UNCHANGED <<bugs, toggledOn>>
           ELSE /\ res' = [Response("toggleWatcher", r.actor, r.id, Ok, None, None, FALSE)
                               EXCEPT !.data = [isWatching    |-> t.isWatching,
                                                watchersCount |-> t.watchersCount]]
                /\ bugs' = [bugs EXCEPT ![r.id] = w.doc]
                /\ inflight' = versionMoved(r.id, s)
                /\ toggledOn' = IF t.isWatching
                                THEN [toggledOn EXCEPT ![r.id] = @ \cup {r.actor}]
                                ELSE toggledOn
    /\ UNCHANGED users
    /\ UNCHANGED <<inactive, metrics, responses>>

\* The resources of a state: the stored bugs, the users, and an object of
\* another kind.
Resources ==
    {BugResource(bugs[b]) : b \in {b \in BugIds : bugs[b] /= NoBug}}
        \cup {UserResource(u) : u \in Users} \cup {UnknownResource}

\* A call canAccessResource(user, resource, action) for a registered user:
\* it sends no response and changes nothing; its answer is recorded.
CanAccessResource(actor, resource, action) ==
    /\ res' = [Response("canAccessResource", actor, None, 0, action, None, FALSE)
                   EXCEPT !.data = [resource |-> resource,
                                    answer   |-> canAccessResource(
                                                    [id |-> actor, role |-> users[actor]],
                                                    resource, action)]]
    /\ UNCHANGED <<users, bugs, inflight, toggledOn>>
    /\ UNCHANGED <<inactive, metrics, responses>>

\* PUT /users/:id/role  : authorize('admin'), updateUserRole.
UpdateUserRole(actor, id, role) ==
    /\ LET mw == authorize({"admin"}, actor)
           code == IF mw /= CallNext THEN mw
                   ELSE IF role \notin {"reporter", "developer", "admin"} THEN BadRequest
                   ELSE IF id \notin DOMAIN users THEN NotFound
                   ELSE Ok
       IN  /\ res' = Response("updateUserRole", actor, id, code, role, None, FALSE)
           /\ users' = IF code = Ok THEN [users EXCEPT ![id] = role] ELSE users
    /\ UNCHANGED <<bugs, inflight, toggledOn>>
    /\ UNCHANGED <<inactive, metrics, responses>>

\* The requests of the bug lifecycle: create, update, delete, assign.
Next ==
    \/ \E a \in Users, b \in BugIds, body \in CreateBodies, t \in Times :
           CreateBug(a, b, body, t)
    \/ \E a \in Users, b \in BugIds, p \in Patches : UpdateBug(a, b, p)
    \/ \E a \in Users, b \in BugIds : DeleteBug(a, b)
    \/ \E a \in Users, b \in BugIds, t \in UserIds : AssignBug(a, b, t)

Spec == Init /\ [][Next]_vars

\* The update payloads with at most one key.
SmallPatches == {p \in Patches : Cardinality(p.keys) <= 1}

\* The requests that change the fields of a stored bug.
NextMutations ==
    \/ \E a \in Users, b \in BugIds, body \in CreateBodies, t \in Times :
           CreateBug(a, b, body, t)
    \/ \E a \in Users, b \in BugIds, p \in SmallPatches : UpdateBug(a, b, p)
    \/ \E a \in Users, b \in BugIds, t \in UserIds : AssignBug(a, b, t)

SpecMutations == Init /\ [][NextMutations]_vars

\* The update payloads that name the assignee or nothing.
AssigneePatches == {p \in Patches : p.keys \subseteq {"assignee"}}

\* The requests that decide who a bug is assigned to and what role they hold.
NextRoles ==
    \/ \E a \in Users, b \in BugIds, body \in CreateBodies, t \in Times :
           CreateBug(a, b, body, t)
    \/ \E a \in Users, b \in BugIds, p \in AssigneePatches : UpdateBug(a, b, p)
    \/ \E a \in Users, b \in BugIds, t \in UserIds : AssignBug(a, b, t)
    \/ \E a \in Users, t \in UserIds, r \in Roles : UpdateUserRole(a, t, r)

SpecRoles == Init /\ [][NextRoles]_vars

\* Steps to reproduce as a request sends them; of a step the order is kept.
StepLists ==
    { <<[order |-> 1]>>, <<[order |-> 1], [order |-> 2]>>,
      <<[order |-> 2], [order |-> 1]>> }

\* The bodies of POST / that name the steps to reproduce and nothing else
\* the model reads.
StepBodies ==
    { [priority |-> Absent, reporter |-> Absent, status |-> Absent,
       stepsToReproduce |-> steps] : steps \in StepLists }

\* The update payloads that name the steps to reproduce.
StepPatches ==
    { [keys |-> {"stepsToReproduce"}, stepsToReproduce |-> steps] :
        steps \in StepLists }

\* The bodies of POST / that name no reporter, no status and no priority.
PlainBodies ==
    {body \in CreateBodies :
        body.reporter = Absent /\ body.status = Absent /\ body.priority = Absent}

\* The update payloads that name the status or the dates of a bug.
TimestampPatches ==
    UNION {
        { [keys |-> K, status |-> st, resolvedAt |-> ra, closedAt |-> ca] :
            st \in IF "status" \in K THEN Statuses ELSE {Absent},
            ra \in IF "resolvedAt" \in K THEN {NoDate} \cup Times ELSE {NoDate},
            ca \in IF "closedAt" \in K THEN {NoDate} \cup Times ELSE {NoDate} } :
        K \in {K \in SUBSET {"status", "resolvedAt", "closedAt"} :
                  Cardinality(K) <= MaxPatchKeys} }

\* The requests that move the status and the dates of a bug.
NextTimestamps ==
    \/ \E a \in Users, b \in BugIds, body \in PlainBodies, t \in Times :
           CreateBug(a, b, body, t)
    \/ \E a \in Users, b \in BugIds, p \in TimestampPatches : UpdateBug(a, b, p)

SpecTimestamps == Init /\ [][NextTimestamps]_vars

\* The update payloads that name the watchers or nothing.
WatcherPatches ==
    { [keys |-> {}] } \cup
    { [keys |-> {"watchers"}, watchers |-> w] : w \in {<<>>, <<"u1", "u1">>} }

\* The requests that change the watchers of a bug, one at a time.
NextWatch ==
    \/ \E a \in Users, b \in BugIds, body \in PlainBodies, t \in Times :
           CreateBug(a, b, body, t)
    \/ \E a \in Users, b \in BugIds, p \in WatcherPatches : UpdateBug(a, b, p)
    \/ \E a \in Users, b \in BugIds, t \in Times : ToggleWatcher(a, b, t)

SpecWatch == Init /\ [][NextWatch]_vars

\* The requests that change the watchers of a bug, one at a time and
\* overlapping.
NextWatchOverlap ==
    \/ \E a \in Users, b \in BugIds, body \in PlainBodies, t \in Times :
           CreateBug(a, b, body, t)
    \/ \E a \in Users, b \in BugIds, p \in WatcherPatches : UpdateBug(a, b, p)
    \/ \E a \in Users, b \in BugIds, t \in Times : ToggleWatcher(a, b, t)
    \/ \E a \in Users, b \in BugIds, s \in Slots : BeginToggleWatcher(a, b, s)
    \/ \E s \in Slots : FinishToggleWatcher(s)

SpecWatchOverlap == Init /\ [][NextWatchOverlap]_vars

\* The update payloads that name the comments, at the top level or under
\* $set, or nothing.
CommentPatches ==
    { [keys |-> {}],
      [keys |-> {"comments"}, comments |-> <<>>],
      [keys |-> {"$set.comments"}, setComments |-> <<>>] }

\* The requests that change the comments of a bug, one at a time.
NextComments ==
    \/ \E a \in Users, b \in BugIds, body \in PlainBodies, t \in Times :
           CreateBug(a, b, body, t)
    \/ \E a \in Users, b \in BugIds, p \in CommentPatches : UpdateBug(a, b, p)
    \/ \E a \in Users, b \in BugIds, c \in Contents, t \in Times :
           AddComment(a, b, c, t)

SpecComments == Init /\ [][NextComments]_vars

\* The comment bodies of the requests that overlap.
OverlapContents == { <<>>, <<" ", "a", " ">> }

\* The addComment requests on a bug, overlapping.
NextCommentsOverlap ==
    \/ \E a \in Users, b \in BugIds, body \in PlainBodies \cup StepBodies, t \in Times :
           CreateBug(a, b, body, t)
    \/ \E a \in Users, b \in BugIds, c \in OverlapContents, s \in Slots :
           BeginAddComment(a, b, c, s)
    \/ \E s \in Slots : FinishAddComment(s)

SpecCommentsOverlap == Init /\ [][NextCommentsOverlap]_vars

\* The requests that decide what canAccessResource reads, and its calls.
NextAccess ==
    \/ \E a \in Users, b \in BugIds, body \in PlainBodies, t \in Times :
           CreateBug(a, b, body, t)
    \/ \E a \in Users, b \in BugIds, t \in UserIds : AssignBug(a, b, t)
    \/ \E a \in Users, r \in Resources, act \in AccessActions :
           CanAccessResource(a, r, act)

SpecAccess == Init /\ [][NextAccess]_vars

\* ---------------------------------------------------------------- claims

\* C1: an updateBug request by an actor who is not an admin and is neither
\* the reporter nor the assignee of the stored bug is answered 403 and leaves
\* the bug collection as it was.
C1_UnrelatedUpdateForbidden ==
    [][\A b \in BugIds :
          (/\ res'.op = "updateBug" /\ res'.id = b
           /\ bugs[b] /= NoBug
           /\ users[res'.actor] /= "admin"
           /\ ~canModify(bugs[b], res'.actor))
          => (res'.code = Forbidden /\ bugs' = bugs)]_vars

\* C2: a bug is created open, and every change of a stored bug's status is an
\* edge of the transition table.
C2_StatusChangesAreLegal ==
    [][\A b \in BugIds :
          /\ (bugs[b] = NoBug /\ bugs'[b] /= NoBug) => bugs'[b].status = "open"
          /\ (bugs[b] /= NoBug /\ bugs'[b] /= NoBug
                /\ bugs'[b].status /= bugs[b].status)
             => validateStatusTransition(bugs[b].status, bugs'[b].status)]_vars

C5_DeleteReporterOrAdmin ==
    [][\A b \in BugIds :
          (res'.op = "deleteBug" /\ res'.id = b /\ bugs[b] /= NoBug)
          => IF bugs[b].reporter = res'.actor \/ users[res'.actor] = "admin"
             THEN res'.code = Ok /\ bugs'[b] = NoBug
             ELSE res'.code = Forbidden /\ bugs' = bugs]_vars

\* C5 witness: the assignee of a bug asked to delete it and got 403.
C5_Witness ==
    /\ res.op = "deleteBug" /\ res.code = Forbidden
    /\ bugs[res.id] /= NoBug
    /\ bugs[res.id].assignee = res.actor

\* C6: in every reachable state the assignee of a stored bug, when set, is an
\* existing user whose role is developer or admin.
C6_AssigneeIsDeveloperOrAdmin ==
    \A b \in BugIds :
        (bugs[b] /= NoBug /\ bugs[b].assignee /= Null)
        => (/\ bugs[b].assignee \in DOMAIN users
            /\ users[bugs[b].assignee] \in {"developer", "admin"})

\* C7: assignBug by a developer or admin answers 404 for a target id that
\* belongs to no user and 400 for a target whose role is reporter, both
\* without changing any bug; for a target whose role is developer or admin
\* and a stored bug it answers 200 and the stored assignee is that user.
C7_AssignChecksTarget ==
    [][\A b \in BugIds :
          (/\ res'.op = "assignBug" /\ res'.id = b
           /\ users[res'.actor] \in {"developer", "admin"})
          => /\ (res'.arg \notin DOMAIN users)
                   => (res'.code = NotFound /\ bugs' = bugs)
             /\ (res'.arg \in DOMAIN users /\ users[res'.arg] = "reporter")
                   => (res'.code = BadRequest /\ bugs' = bugs)
             /\ (/\ res'.arg \in DOMAIN users
                 /\ users[res'.arg] \in {"developer", "admin"}
                 /\ bugs[b] /= NoBug)
                   => /\ res'.code = Ok
                      /\ bugs'[b] = [bugs[b] EXCEPT !.assignee = res'.arg]]_vars

\* C7 witness: assigning a stored, unassigned bug to a reporter-role user was
\* answered 400 and the bug has no assignee.
C7_Witness ==
    /\ res.op = "assignBug" /\ res.code = BadRequest
    /\ res.arg \in DOMAIN users /\ users[res.arg] = "reporter"
    /\ bugs[res.id] /= NoBug /\ bugs[res.id].assignee = Null

\* C8: assignBug is answered 403 exactly when the acting user's role is
\* neither developer nor admin, whoever reported the bug or is assigned to
\* it, and a 403 changes no bug.
C8_AssignByRoleOnly ==
    [][res'.op = "assignBug"
          => /\ (res'.code = Forbidden)
                   <=> (users[res'.actor] \notin {"developer", "admin"})
             /\ (res'.code = Forbidden) => (bugs' = bugs)]_vars

\* C8 witness: the reporter-role reporter of a stored bug asked to assign it
\* to a developer and got 403.
C8_Witness ==
    /\ res.op = "assignBug" /\ res.code = Forbidden
    /\ bugs[res.id] /= NoBug /\ bugs[res.id].reporter = res.actor
    /\ res.arg \in DOMAIN users /\ users[res.arg] = "developer"

\* C9: right after a createBug answered 201 the stored bug has the acting
\* user as reporter and status open, whatever reporter and status the request
\* body named.
C9_CreateForcesReporterAndStatus ==
    (res.op = "createBug" /\ res.code = Created)
    => (/\ bugs[res.id] /= NoBug
        /\ bugs[res.id].reporter = res.actor
        /\ bugs[res.id].status = "open")

\* C9 witness: a create whose body named another user as reporter and the
\* status closed stored a bug.
C9_Witness ==
    /\ res.op = "createBug" /\ res.code = Created
    /\ res.arg \in Users /\ res.arg /= res.actor
    /\ res.from = "closed"
    /\ bugs[res.id] /= NoBug

\* C10: the reporter and the creation date of a stored bug never change, an
\* updateBug leaves the comments as they were, and a payload that names
\* reporter, createdAt or comments is not rejected for it.
C10_ReporterNeverChanges ==
    [][\A b \in BugIds :
          (bugs[b] /= NoBug /\ bugs'[b] /= NoBug)
          => /\ bugs'[b].reporter = bugs[b].reporter
             /\ bugs'[b].createdAt = bugs[b].createdAt
             /\ (res'.op = "updateBug") => (bugs'[b].comments = bugs[b].comments)]_vars

\* C11: a successful updateBug that changes the status of a bug to resolved
\* (closed) while its resolvedAt (closedAt) is not set leaves the stored bug
\* with resolvedAt (closedAt) set.
C11_UpdateDatesResolvedAndClosed ==
    [][\A b \in BugIds :
          (/\ res'.op = "updateBug" /\ res'.id = b /\ res'.code = Ok
           /\ bugs[b] /= NoBug /\ bugs'[b] /= NoBug
           /\ bugs'[b].status /= bugs[b].status)
          => /\ (bugs'[b].status = "resolved" /\ bugs[b].resolvedAt = NoDate)
                   => bugs'[b].resolvedAt /= NoDate
             /\ (bugs'[b].status = "closed" /\ bugs[b].closedAt = NoDate)
                   => bugs'[b].closedAt /= NoDate]_vars

\* C12: once the resolvedAt (closedAt) of a stored bug is set, no operation
\* clears it or writes another date over it.
C12_DatesKeptOnceSet ==
    [][\A b \in BugIds :
          (bugs[b] /= NoBug /\ bugs'[b] /= NoBug)
          => /\ (bugs[b].resolvedAt /= NoDate)
                   => bugs'[b].resolvedAt = bugs[b].resolvedAt
             /\ (bugs[b].closedAt /= NoDate)
                   => bugs'[b].closedAt = bugs[b].closedAt]_vars

\* C13: in every reachable state the watchers of a stored bug name no user
\* twice, whatever toggleWatcher and updateBug requests ran or overlapped.
C13_WatchersDistinct ==
    \A b \in BugIds :
        bugs[b] /= NoBug
        => \A i, j \in 1..Len(bugs[b].watchers) :
               i /= j => bugs[b].watchers[i] /= bugs[b].watchers[j]

C15_ToggleReportsStoredWatchers ==
    [][\A b \in BugIds :
          (/\ res'.op = "toggleWatcher" /\ res'.id = b /\ res'.code = Ok
           /\ bugs' /= bugs)
          => /\ res'.data.isWatching = watching(bugs'[b], res'.actor)
             /\ res'.data.watchersCount = Len(bugs'[b].watchers)
             /\ res'.data.watchersCount <= Cardinality(toggledOn'[b])]_vars

C17_CommentsAppendOnly ==
    [][\A b \in BugIds :
          (bugs[b] /= NoBug /\ bugs'[b] /= NoBug)
          => LET old == bugs[b].comments
                 new == bugs'[b].comments
             IN  Len(old) <= Len(new) /\ SubSeq(new, 1, Len(old)) = old]_vars

\* C18: an addComment whose save comes after another save on the bug it read
\* appends its comment, with its own author, to the comments as they are
\* stored by then: the comments saved in between stay, in the order of the
\* saves, after the comments the request read.
C18_OverlappingCommentsBothStored ==
    [][\A s \in Slots :
          (/\ inflight[s].op = "addComment" /\ inflight'[s] = Idle
           /\ bugs[inflight[s].id] /= NoBug)
          => LET r == inflight[s]
             IN  /\ res'.code = Created /\ res'.actor = r.actor
                 /\ bugs'[r.id].comments =
                       Append(bugs[r.id].comments,
                              [author  |-> r.actor,
                               content |-> sentContent(r.content)])
                 /\ SubSeq(bugs'[r.id].comments, 1, Len(r.doc.comments))
                       = r.doc.comments]_vars

\* C18 witness: two comments of different authors are stored, and the second
\* was saved by a request that had read the bug before the first was saved.
C18_Witness ==
    /\ res.op = "addComment" /\ res.code = Created /\ res.data.overlapped
    /\ bugs[res.id] /= NoBug
    /\ Len(bugs[res.id].comments) = MaxComments + 1
    /\ bugs[res.id].comments[Len(bugs[res.id].comments)].author = res.actor
    /\ bugs[res.id].comments[1].author /= res.actor

C20_UnknownKindDenied ==
    (res.op = "canAccessResource"
        /\ res.data.resource.modelName \notin {"Bug", "User"})
    => res.data.answer = "false"

\* C21: for a user who is no admin, canAccessResource on a Bug answers true
\* for read, true for create when the role is reporter or developer, true for
\* update exactly when the user is the reporter or the assignee, true for
\* delete exactly when the user is the reporter, and false for another action;
\* on a User it answers true for read, true for update exactly when the user
\* is the target, and false for delete and for another action.
C21_NonAdminAccessTable ==
    (/\ res.op = "canAccessResource"
     /\ users[res.actor] /= "admin"
     /\ res.data.resource.modelName \in {"Bug", "User"})
    => LET r   == res.data.resource
           a   == res.actor
           act == res.arg
           expected ==
               IF r.modelName = "Bug"
               THEN CASE act = "read"   -> TRUE
                      [] act = "create" -> users[a] \in {"reporter", "developer"}
                      [] act = "update" -> r.reporter = a \/ r.assignee = a
                      [] act = "delete" -> r.reporter = a
                      [] OTHER          -> FALSE
               ELSE CASE act = "read"   -> TRUE
                      [] act = "update" -> r.id = a
                      [] OTHER          -> FALSE
       IN  res.data.answer = Bool(expected)

\* C22: an updateBug request by an actor who is no admin and neither the
\* reporter nor the assignee, which names a status that is no legal successor
\* of the stored one, is answered 403, not 400, and changes no bug.
C22_AuthorizationBeforeTransition ==
    [][\A b \in BugIds :
          (/\ res'.op = "updateBug" /\ res'.id = b
           /\ bugs[b] /= NoBug
           /\ users[res'.actor] /= "admin"
           /\ ~canModify(bugs[b], res'.actor)
           /\ res'.arg /= Absent
           /\ ~validateStatusTransition(bugs[b].status, res'.arg))
          => (res'.code = Forbidden /\ bugs' = bugs)]_vars

\* C23: on an open bug reported by a user of role reporter, the update to
\* in-progress by a developer who is neither reporter nor assignee is
\* answered 403 and changes nothing; the reporter's request to assign the bug
\* to that developer succeeds; and the same update by the developer, once
\* assignee, is answered 200 and stores in-progress.
C23_AssigneeGainsUpdate ==
    [][\A b \in BugIds :
          (/\ res'.id = b /\ bugs[b] /= NoBug
           /\ bugs[b].status = "open"
           /\ users[bugs[b].reporter] = "reporter")
          => /\ (/\ res'.op = "updateBug" /\ res'.arg = "in-progress"
                 /\ users[res'.actor] = "developer"
                 /\ bugs[b].reporter /= res'.actor)
                   => IF bugs[b].assignee = res'.actor
                      THEN res'.code = Ok /\ bugs'[b].status = "in-progress"
                      ELSE res'.code = Forbidden /\ bugs' = bugs
             /\ (/\ res'.op = "assignBug" /\ res'.actor = bugs[b].reporter
                 /\ res'.arg \in DOMAIN users /\ users[res'.arg] = "developer")
                   => (res'.code = Ok /\ bugs'[b].assignee = res'.arg)]_vars

Middleware(r) ==
    /\ ~responses[r].started
    /\ metrics' = [metrics EXCEPT !.active = @ + 1, !.total = @ + 1]
    /\ responses' = [responses EXCEPT ![r].started = TRUE]
    /\ UNCHANGED <<users, bugs, res, inflight, toggledOn, inactive>>

\* res.on('finish'): the handler sent the response with the status code.
OnFinish(r, code) ==
    /\ responses[r].started
    /\ responses[r].events = <<>>
    /\ metrics' = recordRequestCompletion(metrics, code)
    /\ responses' = [responses EXCEPT ![r].events = Append(@, "finish"),
                                      ![r].statusCode = code]
    /\ UNCHANGED <<users, bugs, res, inflight, toggledOn, inactive>>

\* res.on('close'): emitted once for every response, after 'finish' when the
\* response was sent, alone when the client disconnected before it.
OnClose(r) ==
    /\ responses[r].started
    /\ \A i \in 1..Len(responses[r].events) : responses[r].events[i] /= "close"
    /\ metrics' = recordRequestCompletion(metrics, responses[r].statusCode)
    /\ responses' = [responses EXCEPT ![r].events = Append(@, "close")]
    /\ UNCHANGED <<users, bugs, res, inflight, toggledOn, inactive>>

NextMonitor ==
    \/ \E r \in RequestIds : Middleware(r)
    \/ \E r \in RequestIds, code \in StatusCodes : OnFinish(r, code)
    \/ \E r \in RequestIds : OnClose(r)

SpecMonitor == Init /\ [][NextMonitor]_vars

\* C30: metrics.requests.active is never negative and is the number of
\* requests started whose response has emitted no event yet, and
\* metrics.requests.completed never exceeds metrics.requests.total.
C30_ActiveAndCompletedConsistent ==
    /\ metrics.active >= 0
    /\ metrics.active = Cardinality({ r \in RequestIds :
                            responses[r].started /\ responses[r].events = <<>> })
    /\ metrics.completed <= metrics.total


\* ---------------------------------------------------------------------------
\* Statistics
\* ---------------------------------------------------------------------------

\* The ids of the documents of a collection.
Stored(collection) == { id \in DOMAIN collection : collection[id] /= NoBug }

\* $sum: { $cond: [{ $eq: ['$field', value] }, 1, 0] } over the collection.
SumEq(collection, field, value) ==
    Cardinality({ id \in Stored(collection) : collection[id][field] = value })

\* Bug.getStatistics(): one $group over the whole collection; the aggregate
\* of an empty collection is empty and the zeros are returned in its place.
getStatistics(collection) ==
    IF Stored(collection) = {}
    THEN [total |-> 0, open |-> 0, inProgress |-> 0, testing |-> 0,
          resolved |-> 0, closed |-> 0,
          critical |-> 0, high |-> 0, medium |-> 0, low |-> 0]
    ELSE [total      |-> Cardinality(Stored(collection)),
          open       |-> SumEq(collection, "status", "open"),
          inProgress |-> SumEq(collection, "status", "in-progress"),
          testing    |-> SumEq(collection, "status", "testing"),
          resolved   |-> SumEq(collection, "status", "resolved"),
          closed     |-> SumEq(collection, "status", "closed"),
          critical   |-> SumEq(collection, "priority", "critical"),
          high       |-> SumEq(collection, "priority", "high"),
          medium     |-> SumEq(collection, "priority", "medium"),
          low        |-> SumEq(collection, "priority", "low")]

\* An overdue count that compares the due date of every bug with the read time.
countOverdueUndated(collection, now) ==
    Cardinality({ id \in Stored(collection) :
                    /\ collection[id].dueDate < now
                    /\ collection[id].status \notin {"resolved", "closed"} })

\* Bug.countDocuments({ dueDate: { $lt: new Date() },
\*                      status: { $nin: ['resolved', 'closed'] } }):
\* $lt matches only a stored date.
countOverdue(collection, now) ==
    Cardinality({ id \in Stored(collection) :
                    /\ collection[id].dueDate /= NoDate
                    /\ collection[id].dueDate < now
                    /\ collection[id].status \notin {"resolved", "closed"} })

\* Bug.countDocuments({ $or: [{ reporter: userId }, { assignee: userId }] })
countMyBugs(collection, userId) ==
    Cardinality({ id \in Stored(collection) :
                    \/ collection[id].reporter = userId
                    \/ collection[id].assignee = userId })

\* GET /statistics : getBugStatistics.  recentBugs is left out of the answer.
GetBugStatistics(actor, now) ==
    /\ res' = [Response("getBugStatistics", actor, None, Ok, now, None, FALSE)
                  EXCEPT !.data = [statistics |-> getStatistics(bugs),
                                   overdue    |-> countOverdue(bugs, now),
                                   myBugs     |-> countMyBugs(bugs, actor)]]
    /\ UNCHANGED <<users, bugs, inflight, toggledOn>>
    /\ UNCHANGED <<inactive, metrics, responses>>

\* The bugs of the collections the statistics are asked of.
StatBugIds == {"b1", "b2"}

\* The times a statistics request is read at.
ReadTimes == 1..(MaxTime + 1)

\* Bugs as the handlers leave them: reported by u1 or u2, unassigned or
\* assigned to u1 or u2, with or without a due date, in every status and
\* every priority.
StatDocs ==
    { [status |-> st, priority |-> pr, reporter |-> who[1], assignee |-> who[2],
       comments |-> <<>>, watchers |-> <<>>, stepsToReproduce |-> <<>>,
       dueDate |-> due, createdAt |-> 1, resolvedAt |-> NoDate, closedAt |-> NoDate] :
      st \in Statuses, pr \in {"medium"},
      who \in {<<"u1", Null>>, <<"u1", "u1">>, <<"u2", "u1">>, <<"u2", "u2">>},
      due \in {NoDate} \cup Times }
    \cup
    { [status |-> "open", priority |-> pr, reporter |-> "u1", assignee |-> Null,
       comments |-> <<>>, watchers |-> <<>>, stepsToReproduce |-> <<>>,
       dueDate |-> NoDate, createdAt |-> 1, resolvedAt |-> NoDate, closedAt |-> NoDate] :
      pr \in {"low", "medium", "high", "critical"} }

\* An update whose body is { "$unset": { "status": "" } }.
UnsetPatches == { [keys |-> {"$unset.status"}] }

InitStatistics ==
    /\ users = [u \in Users |->
                   CASE u = "u1" -> "reporter"
                     [] u = "u2" -> "developer"
                     [] u = "u3" -> "admin"]
    /\ bugs \in [StatBugIds -> StatDocs \cup {NoBug}]
    /\ res = Response(None, None, None, 0, None, None, FALSE)
    /\ inflight = [s \in Slots |-> Idle]
    /\ toggledOn = [b \in StatBugIds |-> {}]
    /\ inactive = {}
    /\ metrics = NoRequests
    /\ responses = [r \in RequestIds |-> NotStarted]

NextStatistics ==
    \/ \E actor \in Users, now \in ReadTimes : GetBugStatistics(actor, now)
    \/ \E actor \in Users, id \in StatBugIds, body \in UnsetPatches :
          UpdateBug(actor, id, body)

SpecStatistics == InitStatistics /\ [][NextStatistics]_vars

\* C25: every answer of getBugStatistics carries total equal to the number of
\* bugs, each status count equal to the number of bugs of that status and
\* each priority count equal to the number of bugs of that priority, the
\* five status counts summing to total and the four priority counts summing
\* to total.
C25_StatisticsCountAndSum ==
    res.op = "getBugStatistics" =>
        LET s == res.data.statistics
            n(field, value) ==
                Cardinality({ id \in StatBugIds :
                                bugs[id] /= NoBug /\ bugs[id][field] = value })
        IN  /\ s.total = Cardinality({ id \in StatBugIds : bugs[id] /= NoBug })
            /\ s.open = n("status", "open")
            /\ s.inProgress = n("status", "in-progress")
            /\ s.testing = n("status", "testing")
            /\ s.resolved = n("status", "resolved")
            /\ s.closed = n("status", "closed")
            /\ s.critical = n("priority", "critical")
            /\ s.high = n("priority", "high")
            /\ s.medium = n("priority", "medium")
            /\ s.low = n("priority", "low")
            /\ s.open + s.inProgress + s.testing + s.resolved + s.closed = s.total
            /\ s.critical + s.high + s.medium + s.low = s.total


\* C26: in every answer of getBugStatistics, myBugs is the number of bugs the
\* querying actor reported or is assigned to, a bug of both counted once, and
\* overdue is the number of bugs with a due date before the read time and a
\* status other than resolved and closed; the operation changes no bug.
C26_MyBugsAndOverdue ==
    [][res'.op = "getBugStatistics" =>
          LET present  == { id \in StatBugIds : bugs[id] /= NoBug }
              reported == { id \in present : bugs[id].reporter = res'.actor }
              assigned == { id \in present : bugs[id].assignee = res'.actor }
              due      == { id \in present : /\ bugs[id].dueDate /= NoDate
                                             /\ bugs[id].dueDate < res'.arg }
              done     == { id \in present : bugs[id].status \in {"resolved", "closed"} }
          IN  /\ bugs' = bugs
              /\ res'.data.myBugs = Cardinality(reported \cup assigned)
              /\ res'.data.overdue = Cardinality(due \ done)]_vars

\* An answer for an actor who is reporter and assignee of one bug, which is
\* overdue, over a collection that also holds an open bug with no due date.
C26_Witness ==
    /\ res.op = "getBugStatistics"
    /\ res.data.myBugs = 1
    /\ res.data.overdue = 1
    /\ \E id \in StatBugIds :
          /\ bugs[id] /= NoBug
          /\ bugs[id].reporter = res.actor
          /\ bugs[id].assignee = res.actor
          /\ bugs[id].dueDate /= NoDate
    /\ \E id \in StatBugIds :
          /\ bugs[id] /= NoBug
          /\ bugs[id].dueDate = NoDate
          /\ bugs[id].status = "open"


\* ---------------------------------------------------------------------------
\* Authentication
\* ---------------------------------------------------------------------------

\* What a request carries as its token: no Authorization header (or one that
\* is not "Bearer <token>"), a token jwt.verify rejects, or a token that
\* verifies and names a user id.
NoToken == "no-token"
InvalidToken == "invalid-token"
Tokens == {NoToken, InvalidToken} \cup UserIds

\* A protect that looks the user up and does not read isActive.
protectAnyUser(token) ==
    IF token = NoToken THEN Unauthorized
    ELSE IF token = InvalidToken THEN Unauthorized
    ELSE IF token \notin DOMAIN users THEN Unauthorized
    ELSE CallNext

\* protect: 401 without a token, 401 when verifyToken throws, 401 when
\* User.findById(decoded.id) finds no user or an inactive one; otherwise
\* req.user = user and next().
protect(token) ==
    IF token = NoToken THEN Unauthorized
    ELSE IF token = InvalidToken THEN Unauthorized
    ELSE IF token \notin DOMAIN users \/ token \in inactive THEN Unauthorized
    ELSE CallNext

\* The operations routed under /api/bugs, all behind router.use(protect).
BugOps == {"createBug", "updateBug", "deleteBug", "assignBug",
           "addComment", "toggleWatcher", "getBugStatistics"}

\* A request protect lets through: the handlers run for req.user.
Authenticated(token) == protect(token) = CallNext

\* A request of /api/bugs that protect answers itself.
Unauthenticated(token, op, id) ==
    /\ protect(token) /= CallNext
    /\ res' = Response(op, token, id, protect(token), None, None, FALSE)
    /\ UNCHANGED <<users, bugs, inflight, toggledOn>>
    /\ UNCHANGED <<inactive, metrics, responses>>

\* PUT /api/auth/users/:id/deactivate : authorize('admin'), deactivateUser.
DeactivateUser(actor, id) ==
    /\ LET mw == authorize({"admin"}, actor)
           code == IF mw /= CallNext THEN mw
                   ELSE IF id \notin DOMAIN users THEN NotFound
                   ELSE Ok
       IN  /\ res' = Response("deactivateUser", actor, id, code, None, None, FALSE)
           /\ inactive' = IF code = Ok THEN inactive \cup {id} ELSE inactive
    /\ UNCHANGED <<users, bugs, inflight, toggledOn>>
    /\ UNCHANGED <<metrics, responses>>

\* The update payloads that name the status or nothing.
StatusPatches == {p \in Patches : p.keys \subseteq {"status"}}

\* The requests of /api/bugs as they arrive, with whatever token, and the
\* deactivation of users.
NextAuth ==
    \/ \E k \in Tokens, b \in BugIds, body \in PlainBodies, t \in Times :
           Authenticated(k) /\ CreateBug(k, b, body, t)
    \/ \E k \in Tokens, b \in BugIds, p \in StatusPatches :
           Authenticated(k) /\ UpdateBug(k, b, p)
    \/ \E k \in Tokens, b \in BugIds : Authenticated(k) /\ DeleteBug(k, b)
    \/ \E k \in Tokens, b \in BugIds, t \in UserIds :
           Authenticated(k) /\ AssignBug(k, b, t)
    \/ \E k \in Tokens, op \in BugOps, b \in BugIds : Unauthenticated(k, op, b)
    \/ \E k \in Tokens, u \in UserIds : Authenticated(k) /\ DeactivateUser(k, u)

SpecAuth == Init /\ [][NextAuth]_vars

\* C27: a request of /api/bugs that carries no token, an invalid token, or
\* the token of a user who does not exist or is deactivated is answered 401
\* and changes no bug.
C27_UnauthenticatedRejected ==
    [][res'.op \in BugOps /\ (res'.actor \notin Users \/ res'.actor \in inactive)
          => res'.code = Unauthorized /\ bugs' = bugs]_vars

\* The reporter of a stored bug, deactivated since, is answered 401.
C27_Witness ==
    /\ res.op \in BugOps
    /\ res.code = Unauthorized
    /\ res.actor \in inactive
    /\ bugs["b1"] /= NoBug
    /\ bugs["b1"].reporter = res.actor


\* ---------------------------------------------------------------------------
\* Overlapping updates
\* ---------------------------------------------------------------------------

\* updateBug up to the call of Bug.findByIdAndUpdate: the middleware, the
\* stripped keys and, when the body names a status, Bug.findById and the
\* transition check on the document it returned.
BeginUpdateBug(actor, id, body, s) ==
    /\ FreeSlot(s)
    /\ LET mw == canModifyResource(actor, id, RoutePathId)
           updates == StripReadOnly(body)
           asked == "status" \in updates.keys
           doc == bugs[id]
           code == IF mw /= CallNext THEN mw
                   ELSE IF asked /\ doc = NoBug THEN NotFound
                   ELSE IF asked /\ ~validateStatusTransition(doc.status, updates.status)
                   THEN BadRequest
                   ELSE CallNext
       IN  IF code /= CallNext
           THEN /\ res' = Response("updateBug", actor, id, code,
                                   IF asked THEN updates.status ELSE Absent,
                                   IF asked /\ doc /= NoBug THEN doc.status ELSE None,
                                   FALSE)
                /\ UNCHANGED inflight
           ELSE /\ inflight' = [inflight EXCEPT ![s] =
                                   Request("updateBug", actor, id, doc, updates)]
                /\ UNCHANGED res
    /\ UNCHANGED <<users, bugs, toggledOn>>
    /\ UNCHANGED <<inactive, metrics, responses>>

\* updateBug from Bug.findByIdAndUpdate to the response: the write meets the
\* document as it is stored by then.
FinishUpdateBug(s) ==
    /\ inflight[s].op = "updateBug"
    /\ LET r      == inflight[s]
           stored == bugs[r.id]
           asked  == "status" \in r.content.keys
       IN  IF stored = NoBug
           THEN /\ res' = Response("updateBug", r.actor, r.id, NotFound,
                                   IF asked THEN r.content.status ELSE Absent,
                                   None, FALSE)
                /\ UNCHANGED bugs
           ELSE /\ res' = Response("updateBug", r.actor, r.id, Ok,
                                   IF asked THEN r.content.status ELSE Absent,
                                   IF asked THEN r.doc.status ELSE None, asked)
                /\ bugs' = [bugs EXCEPT ![r.id] = findByIdAndUpdate(stored, r.content)]
    /\ inflight' = [inflight EXCEPT ![s] = Idle]
    /\ UNCHANGED <<users, toggledOn>>
    /\ UNCHANGED <<inactive, metrics, responses>>

\* Updates of a bug's status whose reads and writes interleave.
NextUpdateOverlap ==
    \/ \E a \in Users, b \in BugIds, body \in PlainBodies, t \in Times :
           CreateBug(a, b, body, t)
    \/ \E a \in Users, b \in BugIds, p \in StatusPatches, s \in Slots :
           BeginUpdateBug(a, b, p, s)
    \/ \E s \in Slots : FinishUpdateBug(s)

SpecUpdateOverlap == Init /\ [][NextUpdateOverlap]_vars

\* C28: the status an updateBug request writes is a legal successor of the
\* status stored immediately before its write, however the requests interleave.
C28_WrittenStatusLegalAtWrite ==
    [][\A s \in Slots :
          (/\ inflight[s].op = "updateBug"
           /\ inflight'[s] = Idle
           /\ res'.code = Ok
           /\ res'.arg /= Absent)
          => validateStatusTransition(bugs[inflight[s].id].status,
                                      bugs'[inflight[s].id].status)]_vars


\* ---------------------------------------------------------------------------
\* Frame of the specialised mutations
\* ---------------------------------------------------------------------------

\* Bugs with steps to reproduce, and the requests that assign, comment and
\* watch, one after the other.
NextFrame ==
    \/ \E a \in Users, b \in BugIds, body \in StepBodies, t \in Times :
           CreateBug(a, b, body, t)
    \/ \E a \in Users, b \in BugIds, p \in StepPatches : UpdateBug(a, b, p)
    \/ \E a \in Users, b \in BugIds, t \in Users : AssignBug(a, b, t)
    \/ \E a \in Users, b \in BugIds, c \in OverlapContents, t \in Times :
           AddComment(a, b, c, t)
    \/ \E a \in Users, b \in BugIds, t \in Times : ToggleWatcher(a, b, t)

SpecFrame == Init /\ [][NextFrame]_vars

\* C29: a successful assignBug changes only assignee, a successful addComment
\* only comments and a successful toggleWatcher only watchers; every other
\* field of the bug, stepsToReproduce among them, stays as it was.
C29_OnlyOwnFieldChanges ==
    [][/\ (res'.op = "assignBug" /\ res'.code = Ok)
            => bugs'[res'.id] = [bugs[res'.id] EXCEPT !.assignee = bugs'[res'.id].assignee]
       /\ (res'.op = "addComment" /\ res'.code = Created)
            => bugs'[res'.id] = [bugs[res'.id] EXCEPT !.comments = bugs'[res'.id].comments]
       /\ (res'.op = "toggleWatcher" /\ res'.code = Ok)
            => bugs'[res'.id] = [bugs[res'.id] EXCEPT !.watchers = bugs'[res'.id].watchers]]_vars

====
